---- MODULE Spec2Model ----
(***************************************************************************)
(* Model of the mypager utility (src/unnamed/part_000, lines 148-402):     *)
(* a file is streamed through a fixed-size buffer, cut into words, the     *)
(* words are assembled into lines, and pages of lines are written under    *)
(* single-keystroke control.                                               *)
(*                                                                         *)
(* Bytes are integers (their ASCII codes).  The file is a sequence of      *)
(* bytes fixed at Init; the byte at file offset i-1 is input[i].           *)
(* LINE_WIDTH and PAGE_SIZE are the program's two #defines, scaled down;    *)
(* the program reads them from line_width and page_size, which never       *)
(* change, so that it can be examined as built with other values.          *)
(***************************************************************************)
EXTENDS Integers, Sequences, FiniteSets, TLC

\* ---------------------------------------------------------------- bounds
LINE_WIDTH == 3
PAGE_SIZE == 1
MaxLen == 5
MaxKeys == 3
MaxFaults == 1
\* BUFFER_SIZE of mycopy.c (4096 there)
MYCOPY_BUFFER_SIZE == 2
\* the sorting program: arrays of up to MaxNums ints out of 0..MaxVal
MaxNums == 3
MaxVal == 2

\* ------------------------------------------------------- program constants
BUFFER_SIZE == (LINE_WIDTH + 1) * PAGE_SIZE

SP == 32
LF == 10
TAB == 9

CharF == 102
CharQ == 113
CharX == 120
EOFCHAR == -1

\* items written to standard output: what was written and, for a line of
\* the file, its bytes
Item(kind, bytes) == [kind |-> kind, bytes |-> bytes]
OpeningMsg == Item("Opening file", <<>>)
EofSentinel == Item("=== EOF ===", <<>>)
ErrSentinel == Item("(error reading file)", <<>>)
NewLine == Item("newline", <<>>)
LineOut(bytes) == Item("line", bytes)

ICANON == "ICANON"
ECHO == "ECHO"
ISIG == "ISIG"

VARIABLES
    line_width,       \* LINE_WIDTH of this build
    page_size,        \* PAGE_SIZE of this build
    input,            \* the bytes of the file named on the command line
    faults,           \* number of reads so far that failed or came up short
    fd,               \* "closed" | "open"
    filePos,          \* file offset of fd
    buffer,           \* char buffer[BUFFER_SIZE]
    buffer_start,
    buffer_end,
    buffer_has_data,
    current_page_size,
    term,             \* c_lflag of the controlling terminal
    old,              \* struct termios old
    new,              \* struct termios new
    pc,               \* position of the single thread of control
    exit_status,      \* -1 while running
    command,          \* main's 'command'
    number_of_lines,  \* display_page's loop counter
    page_ret,         \* value returned by the last display_page call
    count,            \* fetch_next_line's 'count'
    line,             \* the bytes fetch_next_line has put into line[]
    word_ret,         \* value returned by the last fetch_next_word call
    line_ret,         \* value returned by the last fetch_next_line call
    out,              \* everything written to standard output, in order
    page_start,       \* Len(out) when the last display_page call began
    keys,             \* number of getchar() calls made
    pages,            \* number of display_page calls made
    consumed,         \* bytes returned in Found words, in order
    inspected_stale,  \* fetch_next_word read buffer[] outside the window
    wrote_past,       \* a store went past word[LINE_WIDTH-1] / line[LINE_WIDTH-1]
    mycopy,           \* the mycopy program's state (src/mycopy.c), a record
    sorter            \* the sorting program's state (main.c), a record

vars == <<line_width, page_size, input, faults, fd, filePos, buffer, buffer_start, buffer_end,
          buffer_has_data, current_page_size, term, old, new, pc, exit_status,
          command, number_of_lines, page_ret, count, line, word_ret, line_ret,
          out, page_start, keys, pages, consumed, inspected_stale, wrote_past,
          mycopy, sorter>>

\* ---------------------------------------------------------------- helpers
Min(a, b) == IF a < b THEN a ELSE b

Last(s) == s[Len(s)]

IsDelim(b) == b \in {SP, LF, TAB}

\* The input files of the model: every arrangement of content bytes, spaces
\* and line-feeds up to MaxLen bytes.  A content byte at file position i has
\* the value 96+i, so that any loss, repetition or reordering shows.
Shapes == UNION { [1..n -> {0, SP, LF}] : n \in 0..MaxLen }

FileOf(sh) == [i \in 1..Len(sh) |-> IF sh[i] = 0 THEN 96 + i ELSE sh[i]]

Inputs == { FileOf(sh) : sh \in Shapes }

\* The buffer/window/file-offset part of the state, as one value.
Win == [buffer |-> buffer, buffer_start |-> buffer_start,
        buffer_end |-> buffer_end, buffer_has_data |-> buffer_has_data,
        filePos |-> filePos]

\* ------------------------------------------------------------ byte source
\* read( fd, buffer + start, n ): the number of bytes delivered.
\* "full" delivers all that was asked for (or all that is left), "short"
\* delivers one byte, "err" fails with -1.
\* The outcomes one read can have: a read may fail or come up short while
\* fewer than 'allowed' reads have done so ("short" where it differs from
\* "full").
ReadOutcomes(pos, n, allowed) ==
    {"full"}
    \cup (IF allowed > 0 THEN {"err"} ELSE {})
    \cup (IF allowed > 0 /\ n > 1 /\ Len(input) - pos > 1 THEN {"short"} ELSE {})

IsFault(outcome) == IF outcome = "full" THEN 0 ELSE 1

read(pos, n, outcome) ==
    IF outcome = "err" THEN -1
    ELSE IF outcome = "short" THEN Min(1, Min(n, Len(input) - pos))
    ELSE Min(n, Len(input) - pos)

\* ---------------------------------------------------------- refill_buffer
\* The number of bytes of buffer[]: BUFFER_SIZE in the program.
SizeOf(buf) == Cardinality(DOMAIN buf)

\* refill_buffer with the window end set one too far (start + bytes read)
refill_buffer_end_off_by_one(w, start, outcome) ==
    LET number_of_bytes == read(w.filePos, SizeOf(w.buffer) - start, outcome)
    IN  IF number_of_bytes > 0
        THEN [ret |-> number_of_bytes,
              w |-> [buffer |-> [i \in DOMAIN w.buffer |->
                                   IF i >= start /\ i < start + number_of_bytes
                                   THEN input[w.filePos + (i - start) + 1]
                                   ELSE w.buffer[i]],
                     buffer_start |-> 0,
                     buffer_end |-> start + number_of_bytes,
                     buffer_has_data |-> 1,
                     filePos |-> w.filePos + number_of_bytes]]
        ELSE [ret |-> number_of_bytes,
              w |-> [w EXCEPT !.buffer_start = 0,
                              !.buffer_end = start - 1,
                              !.buffer_has_data = 0]]

refill_buffer(w, start, outcome) ==
    LET number_of_bytes == read(w.filePos, SizeOf(w.buffer) - start, outcome)
    IN  IF number_of_bytes > 0
        THEN [ret |-> number_of_bytes,
              w |-> [buffer |-> [i \in DOMAIN w.buffer |->
                                   IF i >= start /\ i < start + number_of_bytes
                                   THEN input[w.filePos + (i - start) + 1]
                                   ELSE w.buffer[i]],
                     buffer_start |-> 0,
                     buffer_end |-> (start - 1) + number_of_bytes,
                     buffer_has_data |-> 1,
                     filePos |-> w.filePos + number_of_bytes]]
        ELSE [ret |-> number_of_bytes,
              w |-> [w EXCEPT !.buffer_start = 0,
                              !.buffer_end = start - 1,
                              !.buffer_has_data = 0]]

\* ----------------------------------------------------------------- memcpy
\* memcpy( buffer, buffer + buffer_start, n ) in fetch_next_word.  The two
\* regions overlap when 0 < buffer_start < n, which memcpy does not define:
\* a memcpy that copies from the low end gives the bytes a memmove would, one
\* that copies from the high end reads bytes it has already overwritten.
RECURSIVE BackwardByte(_, _, _, _)
BackwardByte(buf, src, n, i) ==
    IF src + i <= n - 1 THEN BackwardByte(buf, src, n, src + i)
    ELSE buf[src + i]

memcpy_buffer(buf, src, n, backward) ==
    IF src = 0 THEN buf
    ELSE [i \in DOMAIN buf |->
            IF i < n
            THEN IF backward THEN BackwardByte(buf, src, n, i) ELSE buf[src + i]
            ELSE buf[i]]

\* -------------------------------------------------------- fetch_next_word
\* A call has one result for each way its reads and its memcpy can turn out.
\* A result: ret (the int returned), word (the bytes copied to word[]), w (the
\* window afterwards), stale (a byte outside the window was examined), faults
\* (the reads of the call that failed or came up short).
\* 'allowed' bounds the reads that may fail or come up short; 'dirs' holds the
\* directions memcpy may copy in where its regions overlap (TRUE: from the
\* high end).
BufSlice(buf, from, n) == [i \in 1..n |-> buf[from + i - 1]]

fnw_finish(w, start, cnt, more, stale, used) ==
    IF more = 1
    THEN [ret |-> -2, word |-> <<>>, w |-> w, stale |-> stale, faults |-> used]
    ELSE [ret |-> cnt, word |-> BufSlice(w.buffer, start, cnt),
          w |-> [w EXCEPT !.buffer_start = w.buffer_start + cnt],
          stale |-> stale, faults |-> used]

\* if ( count ) memcpy( buffer, buffer + buffer_start, count );
fnw_moved(w, cnt, dirs) ==
    IF cnt > 0
    THEN { [w EXCEPT !.buffer = memcpy_buffer(w.buffer, w.buffer_start, cnt, b)] :
             b \in IF 0 < w.buffer_start /\ w.buffer_start < cnt THEN dirs ELSE {FALSE} }
    ELSE {w}

RECURSIVE fnw_loop(_, _, _, _, _, _, _, _, _)
RECURSIVE fnw_refilled(_, _, _, _, _, _, _, _)

\* the while loop, from its condition
fnw_loop(w, max_size, start, cnt, more, stale, used, allowed, dirs) ==
    IF ~(more = 1 /\ cnt < max_size + 1)
    THEN {fnw_finish(w, start, cnt, more, stale, used)}
    ELSE IF start + cnt > w.buffer_end
    THEN UNION { UNION { fnw_refilled(r, max_size, cnt, more, stale,
                                      used + IsFault(o), allowed, dirs) :
                           r \in { refill_buffer(m, cnt, o) : m \in fnw_moved(w, cnt, dirs) } } :
                   o \in ReadOutcomes(w.filePos, SizeOf(w.buffer) - cnt, allowed - used) }
    ELSE fnw_loop(w, max_size, start, cnt + 1,
                  IF IsDelim(w.buffer[start + cnt]) THEN 0 ELSE more,
                  stale \/ start + cnt < w.buffer_start, used, allowed, dirs)

\* the loop body after refill_buffer has returned r
fnw_refilled(r, max_size, cnt, more, stale, used, allowed, dirs) ==
    IF r.ret = 0
    THEN IF cnt > 0
         THEN {fnw_finish(r.w, r.w.buffer_start, cnt, 0, stale, used)}
         ELSE {[ret |-> 0, word |-> <<>>, w |-> r.w, stale |-> stale, faults |-> used]}
    ELSE IF r.ret = -1
    THEN {[ret |-> -1, word |-> <<>>, w |-> r.w, stale |-> stale, faults |-> used]}
    ELSE fnw_loop(r.w, max_size, r.w.buffer_start, cnt + 1,
                  IF IsDelim(r.w.buffer[r.w.buffer_start + cnt]) THEN 0 ELSE more,
                  stale \/ r.w.buffer_start + cnt > r.w.buffer_end,
                  used, allowed, dirs)

fetch_next_word(w, max_size, allowed, dirs) ==
    fnw_loop(w, max_size, w.buffer_start, 0, 1, FALSE, 0, allowed, dirs)

\* ------------------------------------------------------------------- Init
InitialModes == { {ICANON, ECHO, ISIG}, {ICANON, ISIG} }

\* mycopy and the sorting program are other processes; while mypager is
\* examined they have not been started.
NotStarted == [pc |-> "not started"]

OtherProgramsIdle == mycopy = NotStarted /\ sorter = NotStarted

\* Everything but buffer[] and the file at process start: the globals are zero.
InitGlobals ==
    /\ faults = 0
    /\ fd = "closed"
    /\ filePos = 0
    /\ buffer_start = 0
    /\ buffer_end = 0
    /\ buffer_has_data = 0
    /\ current_page_size = 0
    /\ term \in InitialModes
    /\ old = {}
    /\ new = {}
    /\ pc = "main"
    /\ exit_status = -1
    /\ command = 0
    /\ number_of_lines = 0
    /\ page_ret = -1
    /\ count = 0
    /\ line = <<>>
    /\ word_ret = 0
    /\ line_ret = 0
    /\ out = <<>>
    /\ page_start = 0
    /\ keys = 0
    /\ pages = 0
    /\ consumed = <<>>
    /\ inspected_stale = FALSE
    /\ wrote_past = FALSE

\* Everything but buffer[] at process start, the file being any of Inputs.
InitRest ==
    /\ input \in Inputs
    /\ InitGlobals

ZeroBuffer(size) == [i \in 0..(size - 1) |-> 0]

Init ==
    /\ line_width = LINE_WIDTH
    /\ page_size = PAGE_SIZE
    /\ buffer = ZeroBuffer(BUFFER_SIZE)
    /\ InitRest
    /\ OtherProgramsIdle

\* The same program built with a smaller backing store.
Capacities == 1..BUFFER_SIZE

InitCap ==
    /\ line_width = LINE_WIDTH
    /\ page_size = PAGE_SIZE
    /\ buffer \in { ZeroBuffer(c) : c \in Capacities }
    /\ InitRest
    /\ OtherProgramsIdle

\* ------------------------------------------------------------------- main
eliminate_stdio_buffering_new(t) == t \ {ICANON, ECHO}

\* restore_stdio_buffering setting the raw attributes again instead of the saved
restore_stdio_buffering_sets_new(o, n) == n

\* tcsetattr( 0, TCSANOW, &old ): the terminal's flags afterwards, given the
\* globals old and new
restore_stdio_buffering_term(o, n) == o

\* main() from its entry to its first getchar() or its first call of
\* fetch_next_line: the argument check, the open, the first refill, raw mode,
\* and the first pass through the do-loop with command = 'f', which enters
\* display_page.
Main ==
    /\ pc = "main"
    /\ \E argc \in {1, 2}, open_ok \in BOOLEAN,
          outcome \in ReadOutcomes(0, SizeOf(buffer), MaxFaults) :
         IF argc # 2
         THEN /\ pc' = "done"
              /\ exit_status' = 1
              /\ UNCHANGED <<fd, filePos, buffer, buffer_start, buffer_end,
                             buffer_has_data, term, old, new, command, out,
                             faults, pages, page_start>>
         ELSE IF ~open_ok
         THEN /\ pc' = "done"
              /\ exit_status' = 1
              /\ out' = Append(out, OpeningMsg)
              /\ UNCHANGED <<fd, filePos, buffer, buffer_start, buffer_end,
                             buffer_has_data, term, old, new, command, faults,
                             pages, page_start>>
         ELSE \E r \in {refill_buffer(Win, 0, outcome)} :
                  /\ faults' = faults + IsFault(outcome)
                  /\ out' = Append(out, OpeningMsg)
                  /\ fd' = "open"
                  /\ buffer' = r.w.buffer
                  /\ buffer_start' = r.w.buffer_start
                  /\ buffer_end' = r.w.buffer_end
                  /\ buffer_has_data' = r.w.buffer_has_data
                  /\ filePos' = r.w.filePos
                  /\ old' = term
                  /\ new' = eliminate_stdio_buffering_new(term)
                  /\ term' = eliminate_stdio_buffering_new(term)
                  /\ command' = CharF
                  /\ pages' = pages + 1
                  /\ page_start' = Len(out) + 1
                  /\ pc' = "fetch_next_line"
                  /\ UNCHANGED exit_status
    /\ UNCHANGED <<mycopy, sorter, line_width, page_size, input, current_page_size, number_of_lines, page_ret, count,
                   line, word_ret, line_ret, keys, consumed, inspected_stale, wrote_past>>

\* the switch calling display_page for no command at all
is_next_page_never(c) == FALSE

\* the switch calling display_page in its default case too
is_next_page_or_default(c) == c # CharQ

\* case 'f': the command for which the switch calls display_page
is_next_page(c) == c = CharF

\* command= (char) getchar(); then either 'q' leaves the do-loop (close, restore,
\* return) or the switch runs: 'f' enters display_page, whose loop starts with
\* a call of fetch_next_line; any other command does nothing and getchar() is
\* called again.
GetChar ==
    /\ pc = "getchar"
    /\ keys < MaxKeys
    /\ \E c \in {CharF, CharQ, CharX, EOFCHAR} :
         /\ command' = c
         /\ keys' = keys + 1
         /\ IF c = CharQ
            THEN /\ fd' = "closed"
                 /\ term' = restore_stdio_buffering_term(old, new)
                 /\ exit_status' = 0
                 /\ pc' = "done"
                 /\ UNCHANGED <<number_of_lines, current_page_size, pages,
                                page_start, count, line>>
            ELSE IF is_next_page(c)
            THEN /\ number_of_lines' = 0
                 /\ current_page_size' = 0
                 /\ pages' = pages + 1
                 /\ page_start' = Len(out)
                 /\ count' = 0
                 /\ line' = <<>>
                 /\ pc' = "fetch_next_line"
                 /\ UNCHANGED <<fd, term, exit_status>>
            ELSE /\ pc' = "getchar"
                 /\ UNCHANGED <<fd, term, exit_status, number_of_lines,
                                current_page_size, pages, page_start, count,
                                line>>
    /\ UNCHANGED <<mycopy, sorter, line_width, page_size, input, faults, filePos, buffer, buffer_start, buffer_end,
                   buffer_has_data, old, new, page_ret, word_ret, line_ret,
                   out, consumed, inspected_stale, wrote_past>>

\* ------------------------------------------ fetch_next_line / display_page
\* One pass through fetch_next_line's while loop: a call of fetch_next_word
\* and what fetch_next_line does with its result.  When that ends the loop,
\* fetch_next_line returns into display_page's loop body, which writes the
\* line or a sentinel and either calls fetch_next_line again or returns.
line_more(n, wrd, newcount) ==
    IF n > 0
    THEN IF Last(wrd) = LF \/ newcount >= line_width THEN 0 ELSE 1
    ELSE 0

\* fetch_next_line returning the count accumulated so far on a failed read too
line_result_error_returns_count(n, newcount) == newcount

line_result(n, newcount) == IF n > 0 \/ n = 0 \/ n = -2 THEN newcount ELSE -1

page_output(number_of_chars, ln) ==
    IF number_of_chars > 0
    THEN IF Last(ln) # LF THEN <<LineOut(ln), NewLine>> ELSE <<LineOut(ln)>>
    ELSE IF number_of_chars = 0 THEN <<EofSentinel>> ELSE <<ErrSentinel>>

FetchNextLine ==
    /\ pc = "fetch_next_line"
    /\ \E r \in fetch_next_word(Win, line_width - count, MaxFaults - faults, BOOLEAN) :
         LET n == r.ret
             newcount == IF n > 0 THEN count + n ELSE count
             newline == IF n > 0 THEN line \o r.word ELSE line
             more == line_more(n, r.word, newcount)
             lret == line_result(n, newcount)
         IN  /\ faults' = faults + r.faults
             /\ buffer' = r.w.buffer
             /\ buffer_start' = r.w.buffer_start
             /\ buffer_end' = r.w.buffer_end
             /\ buffer_has_data' = r.w.buffer_has_data
             /\ filePos' = r.w.filePos
             /\ word_ret' = n
             /\ consumed' = consumed \o r.word
             /\ inspected_stale' = (inspected_stale \/ r.stale)
             /\ wrote_past' = (wrote_past \/ n > line_width \/ newcount > line_width)
             /\ IF more = 1
                THEN /\ count' = newcount
                     /\ line' = newline
                     /\ UNCHANGED <<line_ret, out, current_page_size,
                                    number_of_lines, page_ret, pc>>
                ELSE /\ line_ret' = lret
                     /\ out' = out \o page_output(lret, newline)
                     /\ IF lret > 0
                        THEN /\ current_page_size' = current_page_size + lret
                             /\ number_of_lines' = number_of_lines + 1
                             /\ IF number_of_lines + 1 < page_size
                                THEN /\ count' = 0
                                     /\ line' = <<>>
                                     /\ UNCHANGED <<page_ret, pc>>
                                ELSE /\ count' = newcount
                                     /\ line' = newline
                                     /\ page_ret' = 1
                                     /\ pc' = "getchar"
                        ELSE /\ count' = newcount
                             /\ line' = newline
                             /\ page_ret' = 0
                             /\ pc' = "getchar"
                             /\ UNCHANGED <<current_page_size,
                                            number_of_lines>>
    /\ UNCHANGED <<mycopy, sorter, line_width, page_size, input, fd, term, old, new, exit_status,
                   command, keys, pages, page_start>>

Next == Main \/ GetChar \/ FetchNextLine

Spec == Init /\ [][Next]_vars

SpecCap == InitCap /\ [][Next]_vars

\* ======================================================================
\* What the claims speak of
\* ======================================================================
IsLine(it) == it.kind = "line"

IsSentinel(it) == it = EofSentinel \/ it = ErrSentinel

RECURSIVE ConcatBytes(_)
ConcatBytes(items) ==
    IF items = <<>> THEN <<>> ELSE Head(items).bytes \o ConcatBytes(Tail(items))

\* the lines display_page has written, and their bytes end to end (the
\* line-feeds display_page adds itself are separate items, as are the sentinels)
LinesWritten == SelectSeq(out, IsLine)

Rendered == ConcatBytes(LinesWritten)

EofWritten == \E i \in DOMAIN out : out[i] = EofSentinel

ErrWritten == \E i \in DOMAIN out : out[i] = ErrSentinel

\* the bytes read from the file and not yet returned in a word
WindowBytes ==
    [i \in 1..(buffer_end - buffer_start + 1) |-> buffer[buffer_start + i - 1]]

Unread == SubSeq(input, filePos + 1, Len(input))

Unconsumed == WindowBytes \o Unread

StreamEnded == filePos = Len(input) /\ buffer_start > buffer_end

\* what the last display_page call has written
PageItems == SubSeq(out, page_start + 1, Len(out))

PageLines == Len(SelectSeq(PageItems, IsLine))

PageSentinels == SelectSeq(PageItems, IsSentinel)

\* the maximal runs of non-delimiter bytes of the file longer than LINE_WIDTH,
\* each as <<first position, last position>>
OverlongRuns ==
    { pq \in (1..Len(input)) \X (1..Len(input)) :
        /\ pq[2] - pq[1] + 1 > line_width
        /\ \A i \in pq[1]..pq[2] : ~IsDelim(input[i])
        /\ (pq[1] = 1 \/ IsDelim(input[pq[1] - 1]))
        /\ (pq[2] = Len(input) \/ IsDelim(input[pq[2] + 1])) }

\* the run as a word: with the delimiter that ends it, if one does
RunWord(pq) ==
    SubSeq(input, pq[1], IF pq[2] < Len(input) THEN pq[2] + 1 ELSE pq[2])

\* the written lines that hold a byte of the run
LinesHolding(pq) ==
    { i \in DOMAIN out :
        /\ IsLine(out[i])
        /\ \E k \in DOMAIN out[i].bytes :
              \E j \in pq[1]..pq[2] : out[i].bytes[k] = input[j] }

\* ----------------------------------------------------------------------
\* C1  Overlong-word integrity: a run of non-delimiter bytes longer than
\* LINE_WIDTH is written whole as the only content of exactly one line: no
\* line holds part of it, no two lines hold it, and once the end of the
\* input has been announced it has been written.
C1_OverlongWordIntegrity ==
    \A pq \in OverlongRuns :
        /\ \A i \in LinesHolding(pq) :
              out[i].bytes \in {SubSeq(input, pq[1], pq[2]), RunWord(pq)}
        /\ Cardinality(LinesHolding(pq)) <= 1
        /\ (EofWritten => Cardinality(LinesHolding(pq)) = 1)

\* ----------------------------------------------------------------------
\* C2  Lossless reconstruction: when no read has failed and the end-of-input
\* sentinel has been written, the bytes of the written lines, end to end
\* and without the line-feeds display_page added, are the bytes of the file.
C2_LosslessReconstruction ==
    (EofWritten /\ ~ErrWritten) => Rendered = input

\* ----------------------------------------------------------------------
\* C3  Width bound: a written line is at most LINE_WIDTH bytes long, unless
\* it is one single word (no delimiter before its last byte) that is itself
\* longer than LINE_WIDTH.
C3_WidthBound ==
    \A i \in DOMAIN LinesWritten :
        LET l == LinesWritten[i].bytes
        IN  \/ Len(l) <= line_width
            \/ \A k \in 1..(Len(l) - 1) : ~IsDelim(l[k])

\* ----------------------------------------------------------------------
\* C4  Exact page size: a display_page call during which no read failed has,
\* when it returns, written PAGE_SIZE lines and no sentinel, or fewer lines
\* and then the end-of-input sentinel with the file read to its end and the
\* window empty.
C4_ExactPageSize ==
    (pc = "getchar" /\ ErrSentinel \notin {out[i] : i \in page_start + 1 .. Len(out)}) =>
        \/ PageLines = page_size /\ PageSentinels = <<>>
        \/ /\ PageLines < page_size
           /\ PageSentinels = <<EofSentinel>>
           /\ Last(out) = EofSentinel
           /\ StreamEnded

\* ----------------------------------------------------------------------
\* The lines the program makes of the file when built as written
\* (BUFFER_SIZE bytes of buffer), with every read delivering all it is asked
\* for and memcpy copying from the low end: fetch_next_line called until it
\* returns no line.
RECURSIVE fetch_next_line(_, _, _)
fetch_next_line(w, cnt, ln) ==
    LET r == CHOOSE x \in fetch_next_word(w, line_width - cnt, 0, {FALSE}) : TRUE
        newcount == IF r.ret > 0 THEN cnt + r.ret ELSE cnt
        newline == IF r.ret > 0 THEN ln \o r.word ELSE ln
    IN  IF line_more(r.ret, r.word, newcount) = 1
        THEN fetch_next_line(r.w, newcount, newline)
        ELSE [ret |-> line_result(r.ret, newcount), line |-> newline, w |-> r.w]

RECURSIVE LinesFrom(_, _)
LinesFrom(w, fuel) ==
    LET l == fetch_next_line(w, 0, <<>>)
    IN  IF l.ret > 0 /\ fuel > 0
        THEN <<l.line>> \o LinesFrom(l.w, fuel - 1)
        ELSE <<>>

ReferenceLines ==
    LinesFrom(refill_buffer([buffer |-> ZeroBuffer(BUFFER_SIZE), buffer_start |-> 0,
                             buffer_end |-> 0, buffer_has_data |-> 0,
                             filePos |-> 0], 0, "full").w,
              Len(input))

IsPrefix(s, t) == Len(s) <= Len(t) /\ s = SubSeq(t, 1, Len(s))

\* ----------------------------------------------------------------------
\* C5  Buffer-boundary transparency: whatever the size of buffer[] and
\* however the reads split the file, as long as no read fails the lines
\* written are the first lines of those the program makes of the same file
\* with BUFFER_SIZE bytes of buffer and reads that deliver all they are asked
\* for.
C5_BufferTransparency ==
    ~ErrWritten =>
        IsPrefix([i \in DOMAIN LinesWritten |-> LinesWritten[i].bytes], ReferenceLines)

\* ----------------------------------------------------------------------
\* C6  No lost or stale bytes: once the file is open, the bytes returned in
\* words, then the bytes of the window, then the bytes not yet read are the
\* bytes of the file, and fetch_next_word has examined no byte outside the
\* window.
C6_NoLostOrStaleBytes ==
    fd = "open" => (consumed \o Unconsumed = input /\ ~inspected_stale)

\* ----------------------------------------------------------------------
\* C7  Non-consuming outcomes: a fetch_next_word call that returns -2, 0 or -1
\* leaves the unconsumed bytes (window, then unread) as they were, and one
\* that returns a count n > 0 removes exactly the first n of them.
C7_NonConsumingOutcomes ==
    [][pc = "fetch_next_line" =>
         IF word_ret' > 0
         THEN /\ word_ret' <= Len(Unconsumed)
              /\ Unconsumed' = SubSeq(Unconsumed, word_ret' + 1, Len(Unconsumed))
         ELSE Unconsumed' = Unconsumed]_vars

\* ----------------------------------------------------------------------
\* C8  Window invariant: 0 <= buffer_start <= buffer_end + 1 <= the size of
\* buffer[], in every state.
C8_WindowInvariant ==
    /\ 0 <= buffer_start
    /\ buffer_start <= buffer_end + 1
    /\ buffer_end + 1 <= SizeOf(buffer)

\* C8's case: a word was consumed from a window that reached the end of
\* buffer[], and a later refill, made with scanned bytes moved to the front,
\* failed.
C8_Witness ==
    /\ word_ret = -1
    /\ buffer_start = 0
    /\ buffer_end >= 0
    /\ consumed # <<>>
    /\ filePos = SizeOf(buffer)

\* ----------------------------------------------------------------------
\* C9  Ended is final: once display_page has returned 0 (it wrote a sentinel),
\* display_page is not entered again and no second sentinel is written.
C9_EndedIsFinal ==
    /\ page_ret = 0 => pc \in {"getchar", "done"}
    /\ Len(SelectSeq(out, IsSentinel)) <= 1

\* ----------------------------------------------------------------------
\* C10  Terminal restoration: the terminal is in raw mode only while the
\* file is open, the command loop runs in raw mode only, and when main has
\* returned after setting raw mode the terminal is as the snapshot 'old' has
\* it, canonical again.
RawMode == ICANON \notin term

C10_TerminalRestored ==
    /\ RawMode => fd = "open"
    /\ pc \in {"getchar", "fetch_next_line"} => RawMode /\ term = old \ {ICANON, ECHO}
    /\ (pc = "done" /\ exit_status = 0) => term = old /\ ~RawMode

\* C10's case: 'q' was pressed after the end of the input had been announced.
C10_Witness ==
    /\ pc = "done"
    /\ exit_status = 0
    /\ EofWritten
    /\ term = old
    /\ new # old

\* ----------------------------------------------------------------------
\* C11  fetch_next_line result codes: when fetch_next_line returns (display_page
\* then writes), it returns 0 only with the file read to its end and the
\* window empty, a negative value exactly when fetch_next_word reported a
\* failed read, and otherwise the length of the line it composed; it does
\* not return 0 after fetch_next_word returned -2.
FetchNextLineReturned == pc = "fetch_next_line" /\ out' # out

C11_LineResultCodes ==
    [][FetchNextLineReturned =>
         /\ (line_ret' = 0 => (StreamEnded' /\ word_ret' = 0))
         /\ (line_ret' < 0 <=> word_ret' = -1)
         /\ (line_ret' > 0 =>
               /\ IsLine(out'[Len(out) + 1])
               /\ Len(out'[Len(out) + 1].bytes) = line_ret')
         /\ (word_ret' = -2 => line_ret' # 0)]_vars

\* ----------------------------------------------------------------------
\* C12  Read errors in display_page: when fetch_next_word reports a failed
\* read, display_page writes the error sentinel and nothing else (no line, not
\* even the part of a line accumulated so far, and no end-of-input sentinel)
\* and returns 0; when the file is read to its end and the window empty it
\* writes the end-of-input sentinel and not the error sentinel.  A
\* display_page call writes at most one sentinel, as the last thing it writes.
C12_ErrorStep ==
    FetchNextLineReturned =>
        /\ (word_ret' = -1 =>
              /\ out' = Append(out, ErrSentinel)
              /\ page_ret' = 0
              /\ pc' = "getchar")
        /\ ((word_ret' = 0 /\ StreamEnded' /\ count = 0) =>
              /\ out' = Append(out, EofSentinel)
              /\ page_ret' = 0)

C12_OneSentinelPerPage ==
    PageSentinels # <<>> => (Len(PageSentinels) = 1 /\ IsSentinel(Last(out)))

C12_ErrorHandling == [][C12_ErrorStep]_vars /\ []C12_OneSentinelPerPage

\* C12's case: a read failed with part of a line accumulated; the page holds
\* the error sentinel and no line, and the words of that part are consumed.
C12_Witness ==
    /\ pc = "getchar"
    /\ Last(out) = ErrSentinel
    /\ word_ret = -1
    /\ count > 0
    /\ PageLines = 0
    /\ consumed # <<>>

\* ----------------------------------------------------------------------
\* C13  Pages and keystrokes: display_page is called once before the first
\* getchar(), once more for each 'f' read, and not for 'q', which ends the
\* session; so the number of display_page calls is 1 plus the number of 'f'
\* read before the 'q', and 'q' as the first keystroke leaves it at one.
C13_KeyStep ==
    /\ (keys' = keys + 1) =>
          /\ pages >= 1
          /\ pages' = pages + (IF command' = CharF THEN 1 ELSE 0)
          /\ (command' = CharQ => (pc' = "done" /\ out' = out))
    /\ (keys' = keys /\ pc # "main") => pages' = pages

C13_FirstPage ==
    /\ (pc = "getchar" /\ keys = 0) => (pages = 1 /\ page_ret \in {0, 1})
    /\ (pc = "done" /\ exit_status = 0) => command = CharQ
    /\ (pc = "done" /\ exit_status = 0 /\ keys = 1) => pages = 1
    /\ pages <= 1 + keys

C13_PagesAndKeys == [][C13_KeyStep]_vars /\ []C13_FirstPage

\* C13's case: 'q' was the first keystroke; one page was rendered.
C13_Witness ==
    /\ pc = "done"
    /\ exit_status = 0
    /\ keys = 1
    /\ command = CharQ
    /\ pages = 1
    /\ LinesWritten # <<>>

\* ----------------------------------------------------------------------
\* C14  Other keystrokes: a command that is neither 'f' nor 'q' writes
\* nothing, reads nothing from the file, leaves buffer[], buffer_start and
\* buffer_end as they are, and the loop calls getchar() again.
C14_OtherKeysIgnored ==
    [][(keys' = keys + 1 /\ command' \notin {CharF, CharQ}) =>
         /\ UNCHANGED <<out, filePos, buffer, buffer_start, buffer_end,
                        buffer_has_data, fd, term, pages>>
         /\ pc' = "getchar"]_vars

\* C14's case: another key (or getchar()'s EOF) was read after a page with a
\* line on it, with bytes of the file still unrendered.
C14_Witness ==
    /\ pc = "getchar"
    /\ keys > 0
    /\ command \in {CharX, EOFCHAR}
    /\ LinesWritten # <<>>
    /\ Unconsumed # <<>>

\* ----------------------------------------------------------------------
\* The program built with LINE_WIDTH 10 and PAGE_SIZE 1 (so BUFFER_SIZE 11),
\* run on the 17-byte file "abcdefgh ij\nklmno".
ExampleInput ==
    <<97, 98, 99, 100, 101, 102, 103, 104, SP, 105, 106, LF, 107, 108, 109, 110, 111>>

InitExample ==
    /\ line_width = 10
    /\ page_size = 1
    /\ buffer = ZeroBuffer((10 + 1) * 1)
    /\ input = ExampleInput
    /\ InitGlobals
    /\ OtherProgramsIdle

SpecExample == InitExample /\ [][Next]_vars

\* what the program has written when the fourth display_page call returns
ExampleOut ==
    << OpeningMsg,
       LineOut(SubSeq(ExampleInput, 1, 9)), NewLine,
       LineOut(SubSeq(ExampleInput, 10, 12)),
       LineOut(SubSeq(ExampleInput, 13, 17)), NewLine,
       EofSentinel >>

\* how much of it is written when the k-th display_page call returns
ExamplePageEnd == <<3, 4, 6, 7>>

\* C15  Worked example: as long as no read fails, the first page is the line
\* "abcdefgh " (followed by the line-feed display_page adds), the second the
\* line "ij\n", the third the line "klmno" followed by an added line-feed,
\* and the fourth display_page call writes the end-of-input sentinel next.
C15_WorkedExample ==
    ~ErrWritten =>
        /\ IsPrefix(out, ExampleOut) \/ IsPrefix(ExampleOut, out)
        /\ \A k \in 1..4 :
              (pc = "getchar" /\ pages = k) => out = SubSeq(ExampleOut, 1, ExamplePageEnd[k])

\* C15's case: 'f' was pressed three times and the fourth page has ended.
C15_Witness ==
    /\ pc = "getchar"
    /\ pages = 4
    /\ out = ExampleOut
    /\ StreamEnded

\* ======================================================================
\* mycopy (src/mycopy.c)
\* ======================================================================
\* The original file is any file of up to MaxLen bytes, all different.
Originals == { [i \in 1..n |-> 96 + i] : n \in 0..MaxLen }

\* mypager's variables while mycopy is examined: that process is not run.
PagerNotRun ==
    /\ line_width = LINE_WIDTH
    /\ page_size = PAGE_SIZE
    /\ buffer = ZeroBuffer(BUFFER_SIZE)
    /\ input = <<>>
    /\ InitGlobals
    /\ term = {ICANON, ECHO, ISIG}

\* bytes_written is declared without a value and is read before it is
\* assigned when the first read delivers nothing: any int, of which only
\* "less than 1 or not" matters.
Indeterminate == {0, 1}

InitCopy ==
    /\ PagerNotRun
    /\ sorter = NotStarted
    /\ \E o \in Originals :
         mycopy = [pc |-> "main", original |-> o, offset |-> 0, copy |-> <<>>,
                   created |-> FALSE, bytes_read |-> 0, bytes_written |-> 0,
                   perror |-> <<>>, exit_status |-> -1]

\* read( file, buffer, BUFFER_SIZE ): "full" delivers a buffer full or what
\* is left, "short" one byte, "err" fails.
mycopy_read(left, outcome) ==
    IF outcome = "err" THEN -1
    ELSE IF outcome = "short" THEN Min(1, left)
    ELSE Min(MYCOPY_BUFFER_SIZE, left)

\* write( copy, buffer, bytes_read ): "full" writes all, "short" one byte,
\* "err" fails.
mycopy_write(bytes_read, outcome) ==
    IF outcome = "err" THEN -1
    ELSE IF outcome = "short" THEN 1
    ELSE bytes_read

\* main() up to the do-loop: the argument check, the two open()s and fstat().
MyCopyMain ==
    /\ mycopy.pc = "main"
    /\ \E argc \in {2, 3}, open_ok \in BOOLEAN, fstat_ok \in BOOLEAN,
          create_ok \in BOOLEAN, garbage \in Indeterminate :
         mycopy' =
           IF argc # 3
           THEN [mycopy EXCEPT !.pc = "done", !.exit_status = 1]
           ELSE IF ~open_ok
           THEN [mycopy EXCEPT !.pc = "done", !.exit_status = 2,
                               !.perror = <<"opening file to be copied">>]
           ELSE IF ~fstat_ok
           THEN [mycopy EXCEPT !.pc = "done", !.exit_status = 2,
                               !.perror = <<"fstat file">>]
           ELSE IF ~create_ok
           THEN [mycopy EXCEPT !.pc = "done", !.exit_status = 2,
                               !.perror = <<"creating copy">>]
           ELSE [mycopy EXCEPT !.pc = "loop", !.created = TRUE,
                               !.bytes_written = garbage]
    /\ UNCHANGED <<line_width, page_size, input, faults, fd, filePos, buffer,
                   buffer_start, buffer_end, buffer_has_data, current_page_size,
                   term, old, new, pc, exit_status, command, number_of_lines,
                   page_ret, count, line, word_ret, line_ret, out, page_start,
                   keys, pages, consumed, inspected_stale, wrote_past, sorter>>

\* One pass through the do-loop, and when its condition fails the rest of
\* main(): the read error message, the close()s and return 0.
MyCopyLoop ==
    /\ mycopy.pc = "loop"
    /\ \E ro \in {"full", "short", "err"}, wo \in {"full", "short", "err"} :
         LET left == Len(mycopy.original) - mycopy.offset
             bytes_read == mycopy_read(left, ro)
             bytes_written == IF bytes_read > 0
                              THEN mycopy_write(bytes_read, wo)
                              ELSE mycopy.bytes_written
             chunk == SubSeq(mycopy.original, mycopy.offset + 1,
                             mycopy.offset + bytes_written)
             msgs1 == IF bytes_written < 1 THEN <<"write">> ELSE <<>>
             msgs2 == IF bytes_read = -1 THEN <<"read">> ELSE <<>>
         IN  /\ (bytes_read > 0 \/ wo = "full")
             /\ (wo = "short" => bytes_read > 1)
             /\ (ro = "short" => left > 1)
             /\ mycopy' =
                  [mycopy EXCEPT
                     !.bytes_read = bytes_read,
                     !.bytes_written = bytes_written,
                     !.offset = IF bytes_read > 0 THEN @ + bytes_read ELSE @,
                     !.copy = IF bytes_read > 0 /\ bytes_written > 0
                              THEN @ \o chunk ELSE @,
                     !.perror = IF bytes_read > 0
                                THEN @ \o msgs1 ELSE @ \o msgs1 \o msgs2,
                     !.pc = IF bytes_read > 0 THEN "loop" ELSE "done",
                     !.exit_status = IF bytes_read > 0 THEN @ ELSE 0]
    /\ UNCHANGED <<line_width, page_size, input, faults, fd, filePos, buffer,
                   buffer_start, buffer_end, buffer_has_data, current_page_size,
                   term, old, new, pc, exit_status, command, number_of_lines,
                   page_ret, count, line, word_ret, line_ret, out, page_start,
                   keys, pages, consumed, inspected_stale, wrote_past, sorter>>

NextCopy == MyCopyMain \/ MyCopyLoop

SpecCopy == InitCopy /\ [][NextCopy]_vars

\* ----------------------------------------------------------------------
\* C16  mycopy's copy loop: when mycopy has created the copy and returns 0,
\* the copy holds the bytes of the original in their order, whatever the
\* reads and writes returned.
C16_CopyIsComplete ==
    (mycopy.pc = "done" /\ mycopy.exit_status = 0 /\ mycopy.created) =>
        mycopy.copy = mycopy.original

\* ----------------------------------------------------------------------
\* C17  Shape of a Found word: when fetch_next_word( word, max_size ), called
\* with max_size = LINE_WIDTH - count, returns n > 0, then n <= max_size + 1,
\* the n bytes it returns are the next n bytes of the file after those
\* returned before, none but the last is a space, tab or line-feed, and the
\* last is one unless the file ends with it.
FoundWord == SubSeq(consumed', Len(consumed) + 1, Len(consumed'))

C17_FoundWordShape ==
    [][(pc = "fetch_next_line" /\ word_ret' > 0) =>
         /\ word_ret' <= (line_width - count) + 1
         /\ Len(FoundWord) = word_ret'
         /\ Len(consumed') <= Len(input)
         /\ FoundWord = SubSeq(input, Len(consumed) + 1, Len(consumed'))
         /\ \A k \in 1..(word_ret' - 1) : ~IsDelim(FoundWord[k])
         /\ (IsDelim(FoundWord[word_ret']) \/ Len(consumed') = Len(input))]_vars

\* ======================================================================
\* The sorting program (main.c, src/unnamed/part_000 lines 1-147)
\* ======================================================================
\* An array being sorted: its elements, array[0..numNums-1], and whether an
\* index outside that range has been used.
SortValues == 0..MaxVal

Arrays == UNION { [0..(n - 1) -> SortValues] : n \in 0..MaxNums }

Touch(s, idx) == IF idx \subseteq DOMAIN s.array THEN s ELSE [s EXCEPT !.oob = TRUE]

\* void swap( int* array, int i, int j )
swap(s, i, j) ==
    IF {i, j} \subseteq DOMAIN s.array
    THEN [s EXCEPT !.array = [@ EXCEPT ![i] = s.array[j], ![j] = s.array[i]]]
    ELSE Touch(s, {i, j})

\* the inner loop running one element further: j < numNums-i
bubble_inner_limit_off_by_one(numNums, i) == numNums - i

\* for (j = 0; j < numNums-i-1; j++)
bubble_inner_limit(numNums, i) == numNums - i - 1

RECURSIVE bubble_inner(_, _, _, _)
bubble_inner(s, numNums, i, j) ==
    IF j < bubble_inner_limit(numNums, i)
    THEN IF {j, j + 1} \subseteq DOMAIN s.array
         THEN bubble_inner(IF s.array[j] > s.array[j + 1] THEN swap(s, j, j + 1) ELSE s,
                           numNums, i, j + 1)
         ELSE bubble_inner(Touch(s, {j, j + 1}), numNums, i, j + 1)
    ELSE s

RECURSIVE bubble_outer(_, _, _)
bubble_outer(s, numNums, i) ==
    IF i < numNums - 1
    THEN bubble_outer(bubble_inner(s, numNums, i, 0), numNums, i + 1)
    ELSE s

bubbleSort(array, numNums) == bubble_outer([array |-> array, oob |-> FALSE], numNums, 0)

\* while (j >= 0 && array[j] > key) { array[j+1] = array[j]; j = j-1; }
\* array[j+1] = key;
RECURSIVE insertion_while(_, _, _)
insertion_while(s, key, j) ==
    IF j >= 0 /\ j \in DOMAIN s.array /\ s.array[j] > key
    THEN IF j + 1 \in DOMAIN s.array
         THEN insertion_while([s EXCEPT !.array[j + 1] = s.array[j]], key, j - 1)
         ELSE insertion_while(Touch(s, {j + 1}), key, j - 1)
    ELSE IF j + 1 \in DOMAIN s.array /\ (j < 0 \/ j \in DOMAIN s.array)
         THEN [s EXCEPT !.array[j + 1] = key]
         ELSE [s EXCEPT !.oob = TRUE]

RECURSIVE insertion_outer(_, _, _)
insertion_outer(s, numNums, i) ==
    IF i < numNums
    THEN IF i \in DOMAIN s.array
         THEN insertion_outer(insertion_while(s, s.array[i], i - 1), numNums, i + 1)
         ELSE insertion_outer(Touch(s, {i}), numNums, i + 1)
    ELSE s

insertionSort(array, numNums) ==
    insertion_outer([array |-> array, oob |-> FALSE], numNums, 1)

InitSort ==
    /\ PagerNotRun
    /\ mycopy = NotStarted
    /\ \E a \in Arrays :
         sorter = [pc |-> "main", numNums |-> Cardinality(DOMAIN a), created |-> a,
                   array |-> a, choice |-> 0, oob |-> FALSE]

\* main(): the choice of the sort, the sort, and the printing of the array.
SortMain ==
    /\ sorter.pc = "main"
    /\ \E choice \in {1, 2} :
         \E r \in { IF choice = 1 THEN bubbleSort(sorter.array, sorter.numNums)
                                 ELSE insertionSort(sorter.array, sorter.numNums) } :
            sorter' = [sorter EXCEPT !.pc = "done", !.choice = choice,
                                     !.array = r.array, !.oob = r.oob]
    /\ UNCHANGED <<line_width, page_size, input, faults, fd, filePos, buffer,
                   buffer_start, buffer_end, buffer_has_data, current_page_size,
                   term, old, new, pc, exit_status, command, number_of_lines,
                   page_ret, count, line, word_ret, line_ret, out, page_start,
                   keys, pages, consumed, inspected_stale, wrote_past, mycopy>>

NextSort == SortMain

SpecSort == InitSort /\ [][NextSort]_vars

NonDecreasing(a) ==
    \A i \in DOMAIN a : \A j \in DOMAIN a : i < j => a[i] <= a[j]

Occurrences(a, v) == Cardinality({ i \in DOMAIN a : a[i] = v })

IsPermutation(a, b) ==
    /\ DOMAIN a = DOMAIN b
    /\ \A v \in SortValues : Occurrences(a, v) = Occurrences(b, v)

\* ----------------------------------------------------------------------
\* C18  Sorting: whichever sort was chosen, the array it leaves is in
\* non-decreasing order and a permutation of the array created, no index
\* outside 0..numNums-1 was used, and the other sort leaves the same array.
C18_SortsCorrect ==
    sorter.pc = "done" =>
        /\ NonDecreasing(sorter.array)
        /\ IsPermutation(sorter.array, sorter.created)
        /\ ~sorter.oob
        /\ bubbleSort(sorter.created, sorter.numNums).array = sorter.array
        /\ insertionSort(sorter.created, sorter.numNums).array = sorter.array

\* C18's case: an array of MaxNums elements, one value twice, not in order
\* when created, has been sorted.
C18_Witness ==
    /\ sorter.pc = "done"
    /\ sorter.numNums = MaxNums
    /\ ~NonDecreasing(sorter.created)
    /\ \E i, j \in DOMAIN sorter.created : i # j /\ sorter.created[i] = sorter.created[j]
    /\ sorter.array # sorter.created

\* ----------------------------------------------------------------------
\* C19  Array bounds: fetch_next_word returns at most LINE_WIDTH bytes into
\* word[LINE_WIDTH], fetch_next_line's count stays at most LINE_WIDTH, and no
\* store goes past the end of word[] or line[].
C19_ArrayBounds ==
    /\ word_ret <= line_width
    /\ count <= line_width
    /\ ~wrote_past

\* ----------------------------------------------------------------------
\* C20  Session termination: when getchar() delivers 'q' or reports the end
\* of the keystroke input, the command loop ends: the file is closed, the
\* terminal is restored and main returns.
C20_SessionTerminates ==
    [][(keys' = keys + 1 /\ command' \in {CharQ, EOFCHAR}) =>
         /\ pc' = "done"
         /\ fd' = "closed"
         /\ term' = old]_vars

====
